---- MODULE Spec2Model ----
(***************************************************************************)
(* nanofleet-tasks: the task store (src/db.ts), the MCP tool surface and   *)
(* its session table (src/mcp-server.ts) and the REST surface with its     *)
(* notification pushes (src/rest-api.ts), as one state machine.  Every     *)
(* handler is cut at its await points: the code between two awaits is one  *)
(* atomic action (single-threaded event loop, synchronous bun:sqlite).     *)
(***************************************************************************)
EXTENDS Integers, Sequences, FiniteSets, Bags, TLC

\* ---------------------------------------------------------------- bounds
MaxTasks == 1
MaxReqs == 2
MaxComments == 2
MaxResults == 1
MaxClock == 1
MaxSessions == 2
MaxAssignees == 2
MaxHistory == 3

\* ---------------------------------------------------------------- values
Null == "null"
Agents == {"a1", "a2"}
\* mcp-server.ts:207  url.searchParams.get('agent_id') ?? 'unknown'
UnknownAgent == "unknown"
Identities == Agents \cup {UnknownAgent}
TaskIds == 1..MaxTasks
SessionIds == 1..MaxSessions
Reqs == 1..MaxReqs
Times == 0..MaxClock

\* db.ts:57
TaskStatus == {"todo", "in_progress", "review", "done"}
\* mcp-server.ts:101  z.enum(['in_progress', 'review'])
\* faulty variant: the enum also admits 'done'
AgentStatusEnum_withDone == {"in_progress", "review", "done"}
\* faulty variant: the enum also admits 'todo'
AgentStatusEnum_withTodo == {"todo", "in_progress", "review"}
AgentStatusEnum == {"in_progress", "review"}

Titles == {Null, "", "t1"}
Feedbacks == {Null, "", "fb1"}
\* POST /tasks/:id/comments: content absent, empty or a text
Contents == {Null, "", "c1"}
\* post_task_result: content absent (refused by the z.string() schema) or a text
ResultContents == {Null, "r1"}
FilePaths == {Null}
PatchActions == {"approve", "reject", "other"}
LookupOutcomes == {"name", "noname", "notok", "error", "timeout"}

VARIABLES
    tasks,           \* table tasks: id -> row
    task_assignees,  \* table task_assignees: set of <<task_id, agent_id>>
    task_comments,   \* table task_comments, in insertion order
    task_results,    \* table task_results, in insertion order
    nextTask,        \* next fresh task id (randomUUID never repeats)
    now,             \* Date.now()
    sessions,        \* Map sessionId -> bound agentId
    nextSid,         \* next fresh session id
    reqs,            \* requests in flight, one record per slot
    pushes,          \* bag of outbound pushes whose fetch has been issued
    lastResp         \* the response a handler is returning, NoResp between returns

vars == <<tasks, task_assignees, task_comments, task_results, nextTask,
          now, sessions, nextSid, reqs, pushes, lastResp>>

store == <<tasks, task_assignees, task_comments, task_results>>

\* ------------------------------------------------------------ row shapes
NullTask == [id |-> 0, title |-> Null, status |-> Null, created_at |-> 0, updated_at |-> 0]

Idle == [op |-> Null, pc |-> "idle", sid |-> 0, agentId |-> Null, taskId |-> 0,
         status |-> Null, filePath |-> Null, title |-> Null]

NoResp == [op |-> Null, code |-> Null, task |-> 0, agent |-> Null, data |-> Null]

Resp(op, code, task, agent, data) ==
    [op |-> op, code |-> code, task |-> task, agent |-> agent, data |-> data]

\* an absent assigneeIds field of the POST /tasks body
NoList == <<"absent">>
\* the elements of a JSON assigneeIds array are not validated: an agent id or null
AssigneeIdValues == Agents \cup {Null}
AssigneeLists == UNION {[1..n -> AssigneeIdValues] : n \in 0..MaxAssignees} \cup {NoList}

Range(s) == {s[i] : i \in DOMAIN s}
SelectRows(s, t) == SelectSeq(s, LAMBDA row : row.task_id = t)
DropRows(s, t) == SelectSeq(s, LAMBDA row : row.task_id # t)

\* JavaScript !x on an optional string: absent or empty
\* faulty variant: only an absent value counts, '' passes
falsy_undefinedOnly(x) == x = Null
falsy(x) == x \in {Null, ""}

\* assignees.includes(agentId)
\* faulty variant: the membership test always succeeds
includes_always(assignees, agentId) == TRUE
includes(assignees, agentId) == agentId \in assignees

\* ------------------------------------------------------------ src/db.ts
getTask(id) == IF id \in DOMAIN tasks THEN tasks[id] ELSE NullTask

\* UPDATE tasks SET status = ?, updated_at = ? WHERE id = ?
\* faulty variant: the UPDATE skips a task that is done
updateTaskStatus_terminal(T, id, status, t) ==
    IF id \in DOMAIN T /\ T[id].status # "done"
    THEN [T EXCEPT ![id].status = status, ![id].updated_at = t]
    ELSE T
updateTaskStatus(T, id, status, t) ==
    IF id \in DOMAIN T
    THEN [T EXCEPT ![id].status = status, ![id].updated_at = t]
    ELSE T

getTaskAssignees(taskId) == {a \in Identities : <<taskId, a>> \in task_assignees}

getTasksForAgent(agentId) == {id \in DOMAIN tasks : <<id, agentId>> \in task_assignees}

CommentRow(taskId, authorId, authorType, authorName, content, t) ==
    [task_id |-> taskId, author_id |-> authorId, author_type |-> authorType,
     author_name |-> authorName, content |-> content, created_at |-> t]

addComment(C, taskId, authorId, authorType, authorName, content, t) ==
    Append(C, CommentRow(taskId, authorId, authorType, authorName, content, t))

addTaskResult(R, taskId, agentId, content, filePath, t) ==
    Append(R, [task_id |-> taskId, agent_id |-> agentId,
               content |-> content, file_path |-> filePath, created_at |-> t])

getTaskComments(taskId) == SelectRows(task_comments, taskId)
getTaskResults(taskId) == SelectRows(task_results, taskId)

\* getLatestResultPerAgent.  The correlated subquery orders the rows of one
\* task and agent by created_at DESC and keeps the first (LIMIT 1); the outer
\* query orders the kept rows by created_at ASC.  SQL leaves the order of rows
\* with equal created_at open: tie says whether insertion order decides it
\* forwards or backwards.  Rows are identified by their position in the table.
\* faulty variant: the subquery orders ascending and keeps the oldest row
DescBefore_asc(R, i, j, tie) ==
    \/ R[i].created_at < R[j].created_at
    \/ R[i].created_at = R[j].created_at /\ (IF tie THEN i < j ELSE i > j)
DescBefore(R, i, j, tie) ==
    \/ R[i].created_at > R[j].created_at
    \/ R[i].created_at = R[j].created_at /\ (IF tie THEN i < j ELSE i > j)
AscBefore(R, i, j, tie) ==
    \/ R[i].created_at < R[j].created_at
    \/ R[i].created_at = R[j].created_at /\ (IF tie THEN i < j ELSE i > j)

\* SELECT id FROM task_results tr2 WHERE tr2.task_id = task_results.task_id
\* AND tr2.agent_id = task_results.agent_id ORDER BY created_at DESC LIMIT 1
LatestOfAgent(R, i, tie) ==
    LET same == {k \in DOMAIN R : R[k].task_id = R[i].task_id /\ R[k].agent_id = R[i].agent_id}
    IN  CHOOSE k \in same : \A j \in same \ {k} : DescBefore(R, k, j, tie)

OrderByCreatedAtAsc(R, rows, tie) ==
    CHOOSE s \in [1..Cardinality(rows) -> rows] :
        \A a, b \in 1..Cardinality(rows) : a < b => AscBefore(R, s[a], s[b], tie)

getLatestResultPerAgent(R, taskId, tieInner, tieOuter) ==
    OrderByCreatedAtAsc(R, {i \in DOMAIN R : R[i].task_id = taskId
                                              /\ i = LatestOfAgent(R, i, tieInner)}, tieOuter)

\* createTask inserts the task row, then one assignee row per list element;
\* a repeated (task_id, agent_id) violates the primary key, a null agent_id
\* violates NOT NULL, and either throws with the rows inserted so far left in
\* place (no transaction).
FirstRepeat(ids) ==
    LET reps == {i \in DOMAIN ids :
                    \/ ids[i] = Null
                    \/ \E j \in 1..(i - 1) : ids[j] = ids[i]}
    IN  IF reps = {} THEN 0 ELSE CHOOSE i \in reps : \A k \in reps : i <= k

createTaskThrows(ids) == FirstRepeat(ids) # 0

createTaskAssignees(id, ids) ==
    LET stop == IF FirstRepeat(ids) = 0 THEN Len(ids) + 1 ELSE FirstRepeat(ids)
    IN  {<<id, ids[i]>> : i \in 1..(stop - 1)}

\* faulty variant: the row is inserted with a status outside the enumeration
createTaskRow_open(id, title, t) ==
    [id |-> id, title |-> title, status |-> "open", created_at |-> t, updated_at |-> t]

createTaskRow(id, title, t) ==
    [id |-> id, title |-> title, status |-> "todo", created_at |-> t, updated_at |-> t]

\* faulty variant: the assignee rows are left behind
deleteTaskAssignees_kept(A, id) == A
deleteTaskAssignees(A, id) == {row \in A : row[1] # id}
deleteTaskRows(T, id) == [k \in DOMAIN T \ {id} |-> T[k]]

\* ----------------------------------------------------- request plumbing
\* no response is on its way out and no push is unsettled: the event loop is
\* free to run the next handler step
Ready == lastResp = NoResp /\ pushes = EmptyBag

\* a new request takes the lowest free slot (slots are interchangeable)
FreeSlot(r) == reqs[r].pc = "idle" /\ \A q \in 1..(r - 1) : reqs[q].pc # "idle"

\* requests suspended before their addComment
PendingWriters == {r \in Reqs : reqs[r].pc \in {"name", "body"}}
CommentRoom == Len(task_comments) + Cardinality(PendingWriters) < MaxComments
ResultRoom == Len(task_results) < MaxResults

Push(to, event, taskId, feedback) ==
    [to |-> to, event |-> event, task |-> taskId, feedback |-> feedback]

\* rest-api.ts:43-61 / 63-80: Promise.all(assigneeIds.map(pushToAgent)): every
\* fetch is issued before the first await returns control
notifyAssignees(taskId, ids) == SetToBag({Push(a, "assigned", taskId, Null) : a \in Range(ids)})
\* faulty variant: only the first assignee is pushed to
notifyRejection_first(taskId, as, feedback) ==
    IF as = {} THEN EmptyBag
    ELSE SetToBag({Push(CHOOSE a \in as : TRUE, "rejected", taskId, feedback)})
notifyRejection(taskId, as, feedback) == SetToBag({Push(a, "rejected", taskId, feedback) : a \in as})

NullDetail == [status |-> Null, updated_at |-> 0, assignees |-> {}, comments |-> 0, results |-> 0]

buildTaskDetail(taskId) ==
    IF getTask(taskId) = NullTask THEN NullDetail
    ELSE [status |-> getTask(taskId).status,
          updated_at |-> getTask(taskId).updated_at,
          assignees |-> getTaskAssignees(taskId),
          comments |-> Len(getTaskComments(taskId)),
          results |-> Len(getTaskResults(taskId))]

\* ---------------------------------------------------- src/rest-api.ts
\* GET /agents: the fleet API's roster call answers 2xx with a roster, answers
\* a non-success status, fails in transport, times out (AbortSignal.timeout)
\* or answers 2xx with a body that is not a roster
RosterOutcomes == {"ok", "notok", "error", "timeout", "badbody"}
AgentStates == {"running", "stopped"}
GetAgents(outcome, roster) ==
    /\ Ready
    /\ lastResp' = CASE outcome = "ok" ->
                          Resp("GET /agents", "200", 0, Null,
                               {a \in DOMAIN roster : roster[a] = "running"})
                     [] outcome = "notok" -> Resp("GET /agents", "502", 0, Null, outcome)
                     [] OTHER -> Resp("GET /agents", "500", 0, Null, outcome)
    /\ UNCHANGED <<store, nextTask, now, sessions, nextSid, reqs, pushes>>

\* POST /tasks
PostTasks(json, title, ids) ==
    /\ Ready
    /\ UNCHANGED <<task_comments, task_results, now, sessions, nextSid, reqs>>
    /\ IF ~json
       THEN /\ lastResp' = Resp("POST /tasks", "400", 0, Null, "Invalid JSON")
            /\ UNCHANGED <<tasks, task_assignees, nextTask, pushes>>
       ELSE IF falsy(title) \/ ids = NoList \/ Len(ids) = 0
       THEN /\ lastResp' = Resp("POST /tasks", "400", 0, Null, "required")
            /\ UNCHANGED <<tasks, task_assignees, nextTask, pushes>>
       ELSE /\ nextTask <= MaxTasks
            /\ tasks' = [k \in DOMAIN tasks \cup {nextTask} |->
                           IF k = nextTask THEN createTaskRow(nextTask, title, now)
                           ELSE tasks[k]]
            /\ task_assignees' = task_assignees \cup createTaskAssignees(nextTask, ids)
            /\ nextTask' = nextTask + 1
            /\ IF createTaskThrows(ids)
               THEN /\ lastResp' = Resp("POST /tasks", "500", nextTask, Null, Null)
                    /\ UNCHANGED pushes
               ELSE /\ pushes' = pushes (+) notifyAssignees(nextTask, ids)
                    /\ lastResp' = Resp("POST /tasks", "201", nextTask, Null, "todo")

\* GET /tasks/:id
GetTasksId(t) ==
    /\ Ready
    /\ lastResp' = IF buildTaskDetail(t) = NullDetail
                   THEN Resp("GET /tasks/:id", "404", t, Null, Null)
                   ELSE Resp("GET /tasks/:id", "200", t, Null, buildTaskDetail(t))
    /\ UNCHANGED <<store, nextTask, now, sessions, nextSid, reqs, pushes>>

\* DELETE /tasks/:id, with db.ts deleteTask
DeleteTasksId(t) ==
    /\ Ready
    /\ task_assignees' = deleteTaskAssignees(task_assignees, t)
    /\ task_comments' = DropRows(task_comments, t)
    /\ task_results' = DropRows(task_results, t)
    /\ tasks' = deleteTaskRows(tasks, t)
    /\ lastResp' = IF t \in DOMAIN tasks
                   THEN Resp("DELETE /tasks/:id", "200", t, Null, Null)
                   ELSE Resp("DELETE /tasks/:id", "404", t, Null, Null)
    /\ UNCHANGED <<nextTask, now, sessions, nextSid, reqs, pushes>>

\* PATCH /tasks/:id/status, up to the await of the request body
PatchStatusStart(r, t) ==
    /\ Ready
    /\ FreeSlot(r)
    /\ UNCHANGED <<store, nextTask, now, sessions, nextSid, pushes>>
    /\ IF getTask(t) = NullTask
       THEN /\ lastResp' = Resp("PATCH /tasks/:id/status", "404", t, Null, Null)
            /\ UNCHANGED reqs
       ELSE /\ CommentRoom
            /\ reqs' = [reqs EXCEPT ![r] = [Idle EXCEPT !.op = "patch_status", !.pc = "body",
                                               !.taskId = t, !.title = getTask(t).title]]
            /\ UNCHANGED lastResp

\* PATCH /tasks/:id/status, from the parsed body to the response
PatchStatusFinish(r, json, action, feedback) ==
    LET t == reqs[r].taskId IN
    /\ Ready
    /\ reqs[r].pc = "body" /\ reqs[r].op = "patch_status"
    /\ reqs' = [reqs EXCEPT ![r] = Idle]
    /\ UNCHANGED <<task_assignees, task_results, nextTask, now, sessions, nextSid>>
    /\ IF ~json
       THEN /\ lastResp' = Resp("PATCH /tasks/:id/status", "400", t, Null, "Invalid JSON")
            /\ UNCHANGED <<tasks, task_comments, pushes>>
       ELSE IF action \notin {"approve", "reject"}
       THEN /\ lastResp' = Resp("PATCH /tasks/:id/status", "400", t, Null, "action")
            /\ UNCHANGED <<tasks, task_comments, pushes>>
       ELSE IF action = "approve"
       THEN /\ tasks' = updateTaskStatus(tasks, t, "done", now)
            /\ task_comments' = addComment(task_comments, t, "human", "human", "Human",
                                           <<"[System] Task approved and marked as done.">>, now)
            /\ UNCHANGED pushes
            /\ lastResp' = Resp("PATCH /tasks/:id/status", "200", t, Null,
                                IF t \in DOMAIN tasks THEN "done" ELSE Null)
       ELSE IF falsy(feedback)
       THEN /\ lastResp' = Resp("PATCH /tasks/:id/status", "400", t, Null, "feedback")
            /\ UNCHANGED <<tasks, task_comments, pushes>>
       ELSE /\ tasks' = updateTaskStatus(tasks, t, "in_progress", now)
            /\ task_comments' = addComment(task_comments, t, "human", "human", "Human",
                                           <<"[Feedback]", feedback>>, now)
            /\ pushes' = pushes (+) notifyRejection(t, getTaskAssignees(t), feedback)
            /\ lastResp' = Resp("PATCH /tasks/:id/status", "200", t, Null,
                                IF t \in DOMAIN tasks THEN "in_progress" ELSE Null)

\* POST /tasks/:id/comments, up to the await of the request body
PostCommentsStart(r, t) ==
    /\ Ready
    /\ FreeSlot(r)
    /\ UNCHANGED <<store, nextTask, now, sessions, nextSid, pushes>>
    /\ IF getTask(t) = NullTask
       THEN /\ lastResp' = Resp("POST /tasks/:id/comments", "404", t, Null, Null)
            /\ UNCHANGED reqs
       ELSE /\ CommentRoom
            /\ reqs' = [reqs EXCEPT ![r] = [Idle EXCEPT !.op = "post_comment", !.pc = "body",
                                               !.taskId = t]]
            /\ UNCHANGED lastResp

\* POST /tasks/:id/comments, from the parsed body to the response
PostCommentsFinish(r, json, content) ==
    LET t == reqs[r].taskId IN
    /\ Ready
    /\ reqs[r].pc = "body" /\ reqs[r].op = "post_comment"
    /\ reqs' = [reqs EXCEPT ![r] = Idle]
    /\ UNCHANGED <<tasks, task_assignees, task_results, nextTask, now, sessions, nextSid, pushes>>
    /\ IF ~json
       THEN /\ lastResp' = Resp("POST /tasks/:id/comments", "400", t, Null, "Invalid JSON")
            /\ UNCHANGED task_comments
       ELSE IF falsy(content)
       THEN /\ lastResp' = Resp("POST /tasks/:id/comments", "400", t, Null, "content")
            /\ UNCHANGED task_comments
       ELSE /\ task_comments' = addComment(task_comments, t, "human", "human", "Human",
                                           <<content>>, now)
            /\ lastResp' = Resp("POST /tasks/:id/comments", "201", t, Null, Null)

\* pushToAgent: the fetch settles (delivered, transport error or timeout);
\* the outcome is logged at most
PushOutcomes == {"delivered", "error", "timeout"}
\* faulty variant: a push that fails turns the caller's response into an error
PushSettles_surfacing(p, outcome) ==
    /\ BagIn(p, pushes)
    /\ pushes' = pushes (-) SetToBag({p})
    /\ lastResp' = IF outcome = "delivered" \/ lastResp = NoResp THEN lastResp
                   ELSE [lastResp EXCEPT !.code = "502"]
    /\ UNCHANGED <<store, nextTask, now, sessions, nextSid, reqs>>
PushSettles(p, outcome) ==
    /\ BagIn(p, pushes)
    /\ pushes' = pushes (-) SetToBag({p})
    /\ UNCHANGED <<store, nextTask, now, sessions, nextSid, reqs, lastResp>>

\* Date.now() advances
Tick ==
    /\ Ready
    /\ now < MaxClock
    /\ now' = now + 1
    /\ UNCHANGED <<store, nextTask, sessions, nextSid, reqs, pushes, lastResp>>

\* -------------------------------------------------- src/mcp-server.ts
\* the fleet API's display name of an agent
DisplayName(agentId) ==
    CASE agentId = "a1" -> "n1" [] agentId = "a2" -> "n2" [] OTHER -> agentId

\* getAgentName: the name on a 2xx answer that carries one, else the agent id
\* faulty variant: no fallback, a failed lookup yields no name
getAgentName_noFallback(agentId, outcome) ==
    IF outcome = "name" THEN DisplayName(agentId) ELSE Null
getAgentName(agentId, outcome) ==
    IF outcome = "name" THEN DisplayName(agentId) ELSE agentId

\* sessions.get(sessionId)!.agentId: the identity the request runs under
\* faulty variant: the request runs under the agent_id of its own URL
sessionAgentId_fromUrl(sid, agentIdFromUrl) == agentIdFromUrl
sessionAgentId(sid, agentIdFromUrl) == sessions[sid]

\* agentIdStorage.getStore(): the value bound by agentIdStorage.run for the
\* async context of request r
\* faulty variant: one module-level identity shared by all requests in flight
getCallerAgentId_shared(r) ==
    LET bound == {q \in Reqs : reqs[q].pc = "bound"}
    IN  reqs[CHOOSE q \in bound : \A k \in bound : k <= q].agentId
getCallerAgentId(r) == reqs[r].agentId

\* DELETE /mcp with a mcp-session-id header
McpDelete(sid) ==
    /\ Ready
    /\ sessions' = [k \in DOMAIN sessions \ {sid} |-> sessions[k]]
    /\ lastResp' = Resp("DELETE /mcp", "204", 0, Null, sid)
    /\ UNCHANGED <<store, nextTask, now, nextSid, reqs, pushes>>

\* an initialize request: on a known session the session's transport refuses
\* it; otherwise a new transport is built, its session id is generated and
\* onsessioninitialized records the identity of the URL
McpInitialize(sid, agentIdFromUrl) ==
    /\ Ready
    /\ UNCHANGED <<store, nextTask, now, reqs, pushes>>
    /\ IF sid \in DOMAIN sessions
       THEN /\ lastResp' = Resp("initialize", "400", 0, sessionAgentId(sid, agentIdFromUrl), sid)
            /\ UNCHANGED <<sessions, nextSid>>
       ELSE /\ nextSid <= MaxSessions
            /\ sessions' = [k \in DOMAIN sessions \cup {nextSid} |->
                              IF k = nextSid THEN agentIdFromUrl ELSE sessions[k]]
            /\ nextSid' = nextSid + 1
            /\ lastResp' = Resp("initialize", "200", 0, agentIdFromUrl, sid)

\* a tools/call request: on a known session it is handed to the session's
\* transport inside agentIdStorage.run(sessionAgentId); otherwise a new
\* transport is built, which refuses a request that is not an initialize
McpToolsCall(r, sid, agentIdFromUrl) ==
    /\ Ready
    /\ FreeSlot(r)
    /\ UNCHANGED <<store, nextTask, now, sessions, nextSid, pushes>>
    /\ IF sid \in DOMAIN sessions
       THEN /\ reqs' = [reqs EXCEPT ![r] = [Idle EXCEPT !.op = "tools/call", !.pc = "bound",
                                               !.sid = sid,
                                               !.agentId = sessionAgentId(sid, agentIdFromUrl)]]
            /\ UNCHANGED lastResp
       ELSE /\ lastResp' = Resp("tools/call", "400", 0, Null, sid)
            /\ UNCHANGED reqs

\* tool list_my_tasks
ListMyTasks(r) ==
    /\ Ready
    /\ reqs[r].pc = "bound"
    /\ reqs' = [reqs EXCEPT ![r] = Idle]
    /\ lastResp' = Resp("list_my_tasks", "ok", 0, getCallerAgentId(r),
                        getTasksForAgent(getCallerAgentId(r)))
    /\ UNCHANGED <<store, nextTask, now, sessions, nextSid, pushes>>

\* tool get_task
GetTask(r, t) ==
    /\ Ready
    /\ reqs[r].pc = "bound"
    /\ reqs' = [reqs EXCEPT ![r] = Idle]
    /\ lastResp' = IF getTask(t) = NullTask
                   THEN Resp("get_task", "Task not found", t, getCallerAgentId(r), Null)
                   ELSE Resp("get_task", "ok", t, getCallerAgentId(r), buildTaskDetail(t))
    /\ UNCHANGED <<store, nextTask, now, sessions, nextSid, pushes>>

\* tool update_task_status, up to the await of getAgentName
UpdateTaskStatusStart(r, t, status) ==
    LET agentId == getCallerAgentId(r) IN
    /\ Ready
    /\ reqs[r].pc = "bound"
    /\ UNCHANGED <<task_assignees, task_comments, task_results, nextTask, now,
                   sessions, nextSid, pushes>>
    /\ IF status \notin AgentStatusEnum
       THEN /\ lastResp' = Resp("update_task_status", "Invalid arguments", t, agentId, Null)
            /\ reqs' = [reqs EXCEPT ![r] = Idle]
            /\ UNCHANGED tasks
       ELSE IF getTask(t) = NullTask
       THEN /\ lastResp' = Resp("update_task_status", "Task not found", t, agentId, Null)
            /\ reqs' = [reqs EXCEPT ![r] = Idle]
            /\ UNCHANGED tasks
       ELSE IF ~includes(getTaskAssignees(t), agentId)
       THEN /\ lastResp' = Resp("update_task_status", "You are not assigned to this task",
                                t, agentId, Null)
            /\ reqs' = [reqs EXCEPT ![r] = Idle]
            /\ UNCHANGED tasks
       ELSE /\ CommentRoom
            /\ tasks' = updateTaskStatus(tasks, t, status, now)
            /\ reqs' = [reqs EXCEPT ![r].op = "update_task_status", ![r].pc = "name",
                                    ![r].taskId = t, ![r].status = status]
            /\ UNCHANGED lastResp

\* tool update_task_status, from the name lookup's return to the response
\* faulty variant: a lookup that fails in transport or times out rejects, and
\* the handler ends with an error before its addComment
UpdateTaskStatusFinish_lookupThrows(r, outcome) ==
    LET agentId == reqs[r].agentId
        agentName == getAgentName(agentId, outcome)
        statusLabel == IF reqs[r].status = "in_progress"
                       THEN "started working on this task"
                       ELSE "submitted this task for review"
    IN
    /\ Ready
    /\ reqs[r].pc = "name" /\ reqs[r].op = "update_task_status"
    /\ IF outcome \in {"error", "timeout"}
       THEN /\ UNCHANGED task_comments
            /\ lastResp' = Resp("update_task_status", "error", reqs[r].taskId, agentId, Null)
       ELSE /\ task_comments' = addComment(task_comments, reqs[r].taskId, agentId, "agent",
                                           agentName, <<"[System]", agentName, statusLabel>>, now)
            /\ lastResp' = Resp("update_task_status", "ok", reqs[r].taskId, agentId,
                                reqs[r].status)
    /\ reqs' = [reqs EXCEPT ![r] = Idle]
    /\ UNCHANGED <<tasks, task_assignees, task_results, nextTask, now, sessions, nextSid, pushes>>

UpdateTaskStatusFinish(r, outcome) ==
    LET agentId == reqs[r].agentId
        agentName == getAgentName(agentId, outcome)
        statusLabel == IF reqs[r].status = "in_progress"
                       THEN "started working on this task"
                       ELSE "submitted this task for review"
    IN
    /\ Ready
    /\ reqs[r].pc = "name" /\ reqs[r].op = "update_task_status"
    /\ task_comments' = addComment(task_comments, reqs[r].taskId, agentId, "agent", agentName,
                                   <<"[System]", agentName, statusLabel>>, now)
    /\ lastResp' = Resp("update_task_status", "ok", reqs[r].taskId, agentId, reqs[r].status)
    /\ reqs' = [reqs EXCEPT ![r] = Idle]
    /\ UNCHANGED <<tasks, task_assignees, task_results, nextTask, now, sessions, nextSid, pushes>>

\* tool post_task_result, up to the await of getAgentName
PostTaskResultStart(r, t, content, filePath) ==
    LET agentId == getCallerAgentId(r) IN
    /\ Ready
    /\ reqs[r].pc = "bound"
    /\ UNCHANGED <<task_assignees, task_comments, nextTask, now, sessions, nextSid, pushes>>
    /\ IF content = Null
       THEN /\ lastResp' = Resp("post_task_result", "Invalid arguments", t, agentId, Null)
            /\ reqs' = [reqs EXCEPT ![r] = Idle]
            /\ UNCHANGED <<tasks, task_results>>
       ELSE IF getTask(t) = NullTask
       THEN /\ lastResp' = Resp("post_task_result", "Task not found", t, agentId, Null)
            /\ reqs' = [reqs EXCEPT ![r] = Idle]
            /\ UNCHANGED <<tasks, task_results>>
       ELSE IF ~includes(getTaskAssignees(t), agentId)
       THEN /\ lastResp' = Resp("post_task_result", "You are not assigned to this task",
                                t, agentId, Null)
            /\ reqs' = [reqs EXCEPT ![r] = Idle]
            /\ UNCHANGED <<tasks, task_results>>
       ELSE /\ CommentRoom
            /\ ResultRoom
            /\ task_results' = addTaskResult(task_results, t, agentId, content, filePath, now)
            /\ tasks' = updateTaskStatus(tasks, t, "review", now)
            /\ reqs' = [reqs EXCEPT ![r].op = "post_task_result", ![r].pc = "name",
                                    ![r].taskId = t, ![r].filePath = filePath]
            /\ UNCHANGED lastResp

\* tool post_task_result, from the name lookup's return to the response
PostTaskResultFinish(r, outcome) ==
    LET agentId == reqs[r].agentId
        agentName == getAgentName(agentId, outcome)
    IN
    /\ Ready
    /\ reqs[r].pc = "name" /\ reqs[r].op = "post_task_result"
    /\ task_comments' = addComment(task_comments, reqs[r].taskId, agentId, "agent", agentName,
                                   <<"[System]", agentName, "submitted a result",
                                     reqs[r].filePath, "Task is now in review.">>, now)
    /\ lastResp' = Resp("post_task_result", "ok", reqs[r].taskId, agentId, "review")
    /\ reqs' = [reqs EXCEPT ![r] = Idle]
    /\ UNCHANGED <<tasks, task_assignees, task_results, nextTask, now, sessions, nextSid, pushes>>

\* ------------------------------------------------------- specification
\* request bodies: one body that is not JSON, and every combination of fields
CreateBodies ==
    {[json |-> FALSE, title |-> Null, assigneeIds |-> NoList]}
    \cup {[json |-> TRUE, title |-> ti, assigneeIds |-> ids] : ti \in Titles, ids \in AssigneeLists}
PatchBodies ==
    {[json |-> FALSE, action |-> Null, feedback |-> Null]}
    \cup {[json |-> TRUE, action |-> a, feedback |-> f] : a \in PatchActions, f \in Feedbacks}
CommentBodies ==
    {[json |-> FALSE, content |-> Null]} \cup {[json |-> TRUE, content |-> c] : c \in Contents}

\* the mcp-session-id header of a request: 0 when absent
Tokens == {0} \cup SessionIds \cup DOMAIN sessions

\* the process after construction
Init ==
    /\ tasks = <<>>
    /\ task_assignees = {}
    /\ task_comments = <<>>
    /\ task_results = <<>>
    /\ nextTask = 1
    /\ now = 0
    /\ sessions = <<>>
    /\ nextSid = 1
    /\ reqs = [r \in Reqs |-> Idle]
    /\ pushes = EmptyBag
    /\ lastResp = NoResp

\* the process after one initialize request per identity
EstablishedSessions == <<"a1", "a2", UnknownAgent>>
InitServing ==
    /\ tasks = <<>>
    /\ task_assignees = {}
    /\ task_comments = <<>>
    /\ task_results = <<>>
    /\ nextTask = 1
    /\ now = 0
    /\ sessions = EstablishedSessions
    /\ nextSid = Len(EstablishedSessions) + 1
    /\ reqs = [r \in Reqs |-> Idle]
    /\ pushes = EmptyBag
    /\ lastResp = NoResp

\* the response leaves the process: returning it ends the handler's
\* synchronous run, before the event loop runs anything else
Respond ==
    /\ lastResp # NoResp
    /\ lastResp' = NoResp
    /\ UNCHANGED <<store, nextTask, now, sessions, nextSid, reqs, pushes>>

\* the task board served over established sessions: every REST route and
\* every tool call
Next ==
    \/ Respond
    \/ \E b \in CreateBodies : PostTasks(b.json, b.title, b.assigneeIds)
    \/ \E t \in TaskIds : GetTasksId(t)
    \/ \E t \in TaskIds : DeleteTasksId(t)
    \/ \E r \in Reqs, t \in TaskIds : PatchStatusStart(r, t)
    \/ \E r \in Reqs, b \in PatchBodies : PatchStatusFinish(r, b.json, b.action, b.feedback)
    \/ \E r \in Reqs, t \in TaskIds : PostCommentsStart(r, t)
    \/ \E r \in Reqs, b \in CommentBodies : PostCommentsFinish(r, b.json, b.content)
    \/ \E p \in BagToSet(pushes), outcome \in PushOutcomes : PushSettles(p, outcome)
    \/ Tick
    \/ \E r \in Reqs, sid \in Tokens, a \in Identities : McpToolsCall(r, sid, a)
    \/ \E r \in Reqs : ListMyTasks(r)
    \/ \E r \in Reqs, t \in TaskIds : GetTask(r, t)
    \/ \E r \in Reqs, t \in TaskIds, status \in TaskStatus : UpdateTaskStatusStart(r, t, status)
    \/ \E r \in Reqs, outcome \in LookupOutcomes : UpdateTaskStatusFinish(r, outcome)
    \/ \E r \in Reqs, t \in TaskIds, content \in ResultContents, filePath \in FilePaths :
          PostTaskResultStart(r, t, content, filePath)
    \/ \E r \in Reqs, outcome \in LookupOutcomes : PostTaskResultFinish(r, outcome)

Spec == InitServing /\ [][Next]_vars

\* the session table from a fresh process: sessions are opened and closed
\* while tasks are created, listed, read and moved by agents
SessionNext ==
    \/ Respond
    \/ \E b \in CreateBodies : PostTasks(b.json, b.title, b.assigneeIds)
    \/ \E p \in BagToSet(pushes), outcome \in PushOutcomes : PushSettles(p, outcome)
    \/ \E sid \in SessionIds : McpDelete(sid)
    \/ \E sid \in Tokens, a \in Identities : McpInitialize(sid, a)
    \/ \E r \in Reqs, sid \in Tokens, a \in Identities : McpToolsCall(r, sid, a)
    \/ \E r \in Reqs : ListMyTasks(r)
    \/ \E r \in Reqs, t \in TaskIds : GetTask(r, t)
    \/ \E r \in Reqs, t \in TaskIds, status \in TaskStatus : UpdateTaskStatusStart(r, t, status)
    \/ \E r \in Reqs, outcome \in LookupOutcomes : UpdateTaskStatusFinish(r, outcome)

SessionSpec == Init /\ [][SessionNext]_vars

\* the lifecycle of a task: creation, the agents' status-setting tool calls,
\* the human's review decisions and deletion.  The response of a handler
\* leaves, a push settles (AbortSignal.timeout(5000)) and the name lookup
\* returns (AbortSignal.timeout(3000)), after which the event loop runs the
\* handler's continuation.
LifecycleNext ==
    \/ Respond
    \/ \E b \in CreateBodies : PostTasks(b.json, b.title, b.assigneeIds)
    \/ \E t \in TaskIds : DeleteTasksId(t)
    \/ \E r \in Reqs, t \in TaskIds : PatchStatusStart(r, t)
    \/ \E r \in Reqs, b \in PatchBodies : PatchStatusFinish(r, b.json, b.action, b.feedback)
    \/ \E p \in BagToSet(pushes), outcome \in PushOutcomes : PushSettles(p, outcome)
    \/ \E r \in Reqs, sid \in Tokens, a \in Identities : McpToolsCall(r, sid, a)
    \/ \E r \in Reqs, t \in TaskIds, status \in TaskStatus : UpdateTaskStatusStart(r, t, status)
    \/ \E r \in Reqs, outcome \in LookupOutcomes : UpdateTaskStatusFinish(r, outcome)
    \/ \E r \in Reqs, t \in TaskIds, content \in ResultContents, filePath \in FilePaths :
          PostTaskResultStart(r, t, content, filePath)
    \/ \E r \in Reqs, outcome \in LookupOutcomes : PostTaskResultFinish(r, outcome)

LifecycleFairness ==
    /\ WF_vars(Respond)
    /\ WF_vars(\E p \in BagToSet(pushes), outcome \in PushOutcomes : PushSettles(p, outcome))
    /\ \A r \in Reqs :
         /\ SF_vars(\E outcome \in LookupOutcomes : UpdateTaskStatusFinish(r, outcome))
         /\ SF_vars(\E outcome \in LookupOutcomes : PostTaskResultFinish(r, outcome))

LifecycleSpec == InitServing /\ [][LifecycleNext]_vars /\ LifecycleFairness

\* the board as the human's dashboard uses it without a review decision:
\* roster, create, read, delete
RosterNext ==
    \/ Respond
    \/ \E outcome \in RosterOutcomes, roster \in [Agents -> AgentStates] :
          GetAgents(outcome, roster)
    \/ \E b \in CreateBodies : PostTasks(b.json, b.title, b.assigneeIds)
    \/ \E t \in TaskIds : GetTasksId(t)
    \/ \E t \in TaskIds : DeleteTasksId(t)
    \/ \E p \in BagToSet(pushes), outcome \in PushOutcomes : PushSettles(p, outcome)
    \/ Tick

RosterSpec == Init /\ [][RosterNext]_vars

\* the result history and its projection: rows are inserted for the queried
\* task and for other tasks, by any agent, at the same or a later
\* millisecond, and getLatestResultPerAgent is evaluated over the table
HistoryTaskIds == 1..(MaxTasks + 1)

AddTaskResult(taskId, agentId, dt) ==
    /\ lastResp = NoResp
    /\ Len(task_results) < MaxHistory
    /\ now' = now + dt
    /\ task_results' = addTaskResult(task_results, taskId, agentId, "r1", Null, now + dt)
    /\ UNCHANGED <<tasks, task_assignees, task_comments, nextTask, sessions, nextSid,
                   reqs, pushes, lastResp>>

LatestPerAgent(taskId, tieInner, tieOuter) ==
    /\ lastResp = NoResp
    /\ lastResp' = Resp("getLatestResultPerAgent", "ok", taskId, Null,
                        getLatestResultPerAgent(task_results, taskId, tieInner, tieOuter))
    /\ UNCHANGED <<store, nextTask, now, sessions, nextSid, reqs, pushes>>

LatestNext ==
    \/ Respond
    \/ \E t \in HistoryTaskIds, a \in Agents, dt \in 0..1 : AddTaskResult(t, a, dt)
    \/ \E t \in HistoryTaskIds, ti, to \in BOOLEAN : LatestPerAgent(t, ti, to)

LatestSpec == Init /\ [][LatestNext]_vars

\* ------------------------------------------------------------- claims
NotAssigned == "You are not assigned to this task"
NotFound == "Task not found"
PatchRoute == "PATCH /tasks/:id/status"

\* rows of any table that reference task t
RowsOf(t) ==
    <<{row \in task_assignees : row[1] = t},
      SelectSeq(task_comments, LAMBDA row : row.task_id = t),
      SelectSeq(task_results, LAMBDA row : row.task_id = t)>>
NoRowsOf(t) == RowsOf(t) = <<{}, <<>>, <<>>>>

\* this step produces the response of route or tool op
Answers(op) == lastResp = NoResp /\ lastResp'.op = op

\* the slot whose request returns in this step
Returns(r, op, pc) == reqs[r].op = op /\ reqs[r].pc = pc /\ reqs'[r].pc = "idle"

\* C1: in every reachable state the stored status of every existing task is
\* one of todo, in_progress, review, done.
C1_StatusEnumerated ==
    \A t \in DOMAIN tasks : tasks[t].status \in {"todo", "in_progress", "review", "done"}

C1_Witness ==
    /\ lastResp.op = PatchRoute /\ lastResp.code = "200"
    /\ \E t \in DOMAIN tasks : tasks[t].status = "done"
    /\ Len(task_comments) = 2

\* C2 (as stated): when a post_task_result call returns successfully the
\* task's status is review, and the call has appended exactly one result row
\* and exactly one system comment to the task, whatever was handled while it
\* was suspended on the name lookup.
C2_Original ==
    [][\A r \in Reqs :
         Returns(r, "post_task_result", "name") /\ lastResp'.code = "ok" =>
           LET t == reqs[r].taskId IN
           /\ t \in DOMAIN tasks' /\ tasks'[t].status = "review"
           /\ Len(SelectSeq(task_results', LAMBDA row :
                    row.task_id = t /\ row.agent_id = reqs[r].agentId)) = 1
           /\ Len(task_comments') = Len(task_comments) + 1
           /\ task_comments'[Len(task_comments')].task_id = t]_vars

\* C3: a tool call of update_task_status or post_task_result on an existing
\* task by a caller that is not among its assignees is answered with the
\* not-assigned error and leaves every stored row unchanged.
C3_NotAssignedRefused ==
    [][\A t \in DOMAIN tasks :
         ( /\ (Answers("update_task_status") \/ Answers("post_task_result"))
           /\ lastResp'.task = t
           /\ <<t, lastResp'.agent>> \notin task_assignees
           /\ lastResp'.code # "Invalid arguments" )
         => /\ lastResp'.code = NotAssigned
            /\ tasks' = tasks /\ task_assignees' = task_assignees
            /\ task_comments' = task_comments /\ task_results' = task_results]_vars

C3_Witness ==
    /\ lastResp.op \in {"update_task_status", "post_task_result"}
    /\ lastResp.code = NotAssigned
    /\ lastResp.task \in DOMAIN tasks
    /\ <<lastResp.task, lastResp.agent>> \notin task_assignees
    /\ tasks[lastResp.task].updated_at < now

\* C4: a task's status is written to done only by an approve decision of
\* PATCH /tasks/:id/status; no tool call writes done.
C4_DoneOnlyByApprove ==
    [][\A t \in DOMAIN tasks' :
         ( /\ tasks'[t].status = "done"
           /\ (t \notin DOMAIN tasks \/ tasks'[t] # tasks[t]) )
         => /\ Answers(PatchRoute) /\ lastResp'.code = "200" /\ lastResp'.task = t
            /\ lastResp'.data = "done"
            /\ \E r \in Reqs : Returns(r, "patch_status", "body") /\ reqs[r].taskId = t]_vars

C4_Witness ==
    /\ lastResp.op = PatchRoute /\ lastResp.code = "200"
    /\ lastResp.task \in DOMAIN tasks
    /\ tasks[lastResp.task].status = "done"
    /\ \E r \in Reqs : reqs[r].pc = "name"

\* C5: a reject decision whose feedback is absent or empty is answered 400
\* and changes nothing: no status or updated_at write, no comment, no push.
C5_RejectNeedsFeedback ==
    [][\A r \in Reqs, f \in {Null, ""} :
         PatchStatusFinish(r, TRUE, "reject", f)
         => /\ lastResp'.op = PatchRoute /\ lastResp'.code = "400"
            /\ tasks' = tasks /\ task_assignees' = task_assignees
            /\ task_comments' = task_comments /\ task_results' = task_results
            /\ pushes' = pushes]_vars

C5_Witness ==
    /\ lastResp.op = PatchRoute /\ lastResp.code = "400" /\ lastResp.data = "feedback"
    /\ lastResp.task \in DOMAIN tasks
    /\ tasks[lastResp.task].status = "review"
    /\ tasks[lastResp.task].updated_at < now

\* C6: a reject decision with non-empty feedback on a task that exists sets
\* the status to in_progress, appends exactly one comment, whose content
\* contains the feedback, and issues exactly one rejection push to each agent
\* assigned to the task at that moment.
C6_RejectWithFeedback ==
    [][\A r \in Reqs, f \in Feedbacks \ {Null, ""} :
         PatchStatusFinish(r, TRUE, "reject", f) /\ reqs[r].taskId \in DOMAIN tasks
         => LET t == reqs[r].taskId IN
            /\ t \in DOMAIN tasks' /\ tasks'[t].status = "in_progress"
            /\ tasks'[t].updated_at = now
            /\ Len(task_comments') = Len(task_comments) + 1
            /\ SubSeq(task_comments', 1, Len(task_comments)) = task_comments
            /\ task_comments'[Len(task_comments')].task_id = t
            /\ f \in Range(task_comments'[Len(task_comments')].content)
            /\ \A a \in Identities :
                 CopiesIn([to |-> a, event |-> "rejected", task |-> t, feedback |-> f], pushes')
                   = IF <<t, a>> \in task_assignees THEN 1 ELSE 0
            /\ BagCardinality(pushes') = Cardinality({a \in Identities : <<t, a>> \in task_assignees})
            /\ lastResp'.code = "200"]_vars

C6_Witness ==
    /\ lastResp.op = PatchRoute /\ lastResp.code = "200" /\ lastResp.data = "in_progress"
    /\ lastResp.task \in DOMAIN tasks
    /\ {<<lastResp.task, a>> : a \in Agents} \subseteq task_assignees
    /\ BagCardinality(pushes) = 2
    /\ Len(task_comments) = 2
    /\ task_comments[1].content = <<"[System] Task approved and marked as done.">>

\* C7: a successful delete leaves no assignee, comment or result row of the
\* task and the task stays absent; get_task and GET /tasks/:id on an absent
\* task answer not-found; a delete of an absent task answers not-found and
\* creates no task.
C7_DeleteCascades ==
    [][/\ \A t \in TaskIds :
            /\ (Answers("DELETE /tasks/:id") /\ lastResp'.task = t /\ lastResp'.code = "200")
                 => t \in DOMAIN tasks /\ t \notin DOMAIN tasks' /\ RowsOf(t)' = <<{}, <<>>, <<>>>>
            /\ (Answers("DELETE /tasks/:id") /\ lastResp'.task = t /\ t \notin DOMAIN tasks)
                 => lastResp'.code = "404" /\ tasks' = tasks
            /\ ((Answers("get_task") \/ Answers("GET /tasks/:id")) /\ lastResp'.task = t
                  /\ t \notin DOMAIN tasks)
                 => lastResp'.code \in {"404", NotFound}
            /\ (t < nextTask /\ t \notin DOMAIN tasks) => t \notin DOMAIN tasks'
      ]_vars

C7_Witness ==
    /\ lastResp.op \in {"get_task", "GET /tasks/:id"}
    /\ lastResp.code \in {"404", NotFound}
    /\ lastResp.task < nextTask
    /\ NoRowsOf(lastResp.task)

\* C8 (as stated): in every reachable state every stored comment and every
\* stored result references a task that exists, also when a delete is handled
\* while another request on the task is suspended.
C8_Original ==
    /\ \A i \in DOMAIN task_comments : task_comments[i].task_id \in DOMAIN tasks
    /\ \A i \in DOMAIN task_results : task_results[i].task_id \in DOMAIN tasks

\* C9: every tool call handled on a session runs under the identity bound to
\* that session and under no other request's identity: the identity is taken
\* from the session table when the request arrives, stays with the request
\* while it is in flight, list_my_tasks answers exactly the tasks assigned to
\* it, and update_task_status is authorised against it.
C9_SessionIdentity ==
    [][\A r \in Reqs :
         /\ (reqs[r].pc = "idle" /\ reqs'[r].pc = "bound")
              => /\ reqs'[r].sid \in DOMAIN sessions
                 /\ reqs'[r].agentId = sessions[reqs'[r].sid]
         /\ (reqs[r].pc # "idle" /\ reqs'[r].pc # "idle")
              => reqs'[r].agentId = reqs[r].agentId /\ reqs'[r].sid = reqs[r].sid
         /\ (Answers("list_my_tasks") /\ Returns(r, "tools/call", "bound"))
              => /\ lastResp'.agent = reqs[r].agentId
                 /\ lastResp'.data = {t \in DOMAIN tasks : <<t, reqs[r].agentId>> \in task_assignees}
         /\ (reqs[r].pc = "bound" /\ reqs'[r].pc = "name")
              => <<reqs'[r].taskId, reqs[r].agentId>> \in task_assignees
         /\ (Answers("update_task_status") /\ Returns(r, "tools/call", "bound")
               /\ lastResp'.code = NotAssigned)
              => /\ lastResp'.agent = reqs[r].agentId
                 /\ <<lastResp'.task, reqs[r].agentId>> \notin task_assignees
      ]_vars

C9_Witness ==
    /\ lastResp.op = "list_my_tasks"
    /\ lastResp.data # {}
    /\ \E r \in Reqs :
         /\ reqs[r].pc = "bound"
         /\ reqs[r].agentId \in Agents \ {lastResp.agent}
         /\ reqs[r].sid \in DOMAIN sessions
         /\ \E t \in lastResp.data : <<t, reqs[r].agentId>> \notin task_assignees

\* a session token that was issued and has been terminated by DELETE /mcp
Terminated(s) == s \in 1..(nextSid - 1) /\ s \notin DOMAIN sessions

\* C10 (as stated): once a session is terminated its token is out of the
\* session table for good, and every later request carrying the token is
\* rejected: it is bound to no identity and creates no session.
C10_Original ==
    [][\A s \in SessionIds :
         Terminated(s) =>
           /\ s \notin DOMAIN sessions'
           /\ ((Answers("initialize") \/ Answers("tools/call")) /\ lastResp'.data = s)
                => lastResp'.code = "400" /\ sessions' = sessions
           /\ \A r \in Reqs : (reqs[r].pc = "idle" /\ reqs'[r].pc = "bound") => reqs'[r].sid # s
      ]_vars

\* C11 (as stated): a create request with a title and a non-empty assigneeIds
\* list stores the task with status todo, with exactly the listed ids as its
\* assignees, and issues exactly one push per listed assignee; a request
\* without a title or without a non-empty list is answered 400, stores
\* nothing and pushes nothing.
C11_Original ==
    [][\A b \in CreateBodies :
         (b.json /\ PostTasks(b.json, b.title, b.assigneeIds)) =>
           IF ~falsy(b.title) /\ b.assigneeIds # NoList /\ Len(b.assigneeIds) > 0
           THEN /\ lastResp'.code = "201"
                /\ nextTask \in DOMAIN tasks' /\ tasks'[nextTask].status = "todo"
                /\ {row[2] : row \in {x \in task_assignees' : x[1] = nextTask}}
                     = Range(b.assigneeIds)
                /\ \A a \in Range(b.assigneeIds) :
                     CopiesIn(Push(a, "assigned", nextTask, Null), pushes') = 1
                /\ BagCardinality(pushes') = Cardinality(Range(b.assigneeIds))
           ELSE /\ lastResp'.code = "400"
                /\ store' = store /\ pushes' = pushes]_vars

\* C12: whatever the outcome of a push (delivered, transport error, timeout),
\* its settling changes neither the stored rows nor any response nor any
\* request in flight, and issues no further push (no retry); pushes are
\* issued only by the step that answers a create with 201 or a reject with
\* 200, at most one per recipient, and are still unsettled when that response
\* is produced.
C12_PushOutcomesSwallowed ==
    [][/\ \A p \in BagToSet(pushes), o \in PushOutcomes :
            PushSettles(p, o) => store' = store /\ lastResp' = lastResp /\ reqs' = reqs
       /\ BagCardinality(pushes') < BagCardinality(pushes)
            => /\ store' = store /\ lastResp' = lastResp /\ reqs' = reqs
               /\ BagCardinality(pushes') = BagCardinality(pushes) - 1
               /\ \A p \in BagToSet(pushes') : CopiesIn(p, pushes') <= CopiesIn(p, pushes)
       /\ (pushes' # pushes /\ BagCardinality(pushes') >= BagCardinality(pushes))
            => /\ pushes = EmptyBag
               /\ Answers("POST /tasks") \/ Answers(PatchRoute)
               /\ lastResp'.code = IF lastResp'.op = PatchRoute THEN "200" ELSE "201"
               /\ \A p \in BagToSet(pushes') :
                    /\ CopiesIn(p, pushes') = 1
                    /\ p.task = lastResp'.task
                    /\ p.event = IF lastResp'.op = PatchRoute THEN "rejected" ELSE "assigned"
                    /\ <<p.task, p.to>> \in task_assignees'
      ]_vars

\* the 201 of a create is still on its way out, one of its two pushes has
\* settled and the other has not
C12_Witness ==
    /\ lastResp.op = "POST /tasks" /\ lastResp.code = "201"
    /\ lastResp.task \in DOMAIN tasks
    /\ Cardinality({a \in Agents : <<lastResp.task, a>> \in task_assignees}) = 2
    /\ BagCardinality(pushes) = 1

\* C13: getLatestResultPerAgent returns, for the queried task, exactly one row
\* per agent that has submitted a result for it, that row having the agent's
\* greatest created_at, in ascending order of created_at; it returns no row of
\* another task and leaves the tables as they are.
C13_LatestPerAgent ==
    [][Answers("getLatestResultPerAgent") =>
         LET out == lastResp'.data
             t == lastResp'.task
             R == task_results
             of(a) == {i \in DOMAIN R : R[i].task_id = t /\ R[i].agent_id = a}
         IN  /\ \A k \in DOMAIN out : out[k] \in DOMAIN R /\ R[out[k]].task_id = t
             /\ \A a \in Agents :
                  /\ Cardinality({k \in DOMAIN out : out[k] \in of(a)})
                       = IF of(a) = {} THEN 0 ELSE 1
                  /\ \A k \in DOMAIN out : out[k] \in of(a) =>
                       \A j \in of(a) : R[j].created_at <= R[out[k]].created_at
             /\ \A k, l \in DOMAIN out :
                  k < l => R[out[k]].created_at <= R[out[l]].created_at
             /\ store' = store]_vars

\* the history R1(A, t1), R3(B, t2), R2(A, t3) answered with [R3, R2]
C13_Witness ==
    /\ lastResp.op = "getLatestResultPerAgent"
    /\ Len(task_results) = 3
    /\ \A i \in 1..3 : task_results[i].task_id = lastResp.task
    /\ task_results[1].agent_id = task_results[3].agent_id
    /\ task_results[2].agent_id # task_results[1].agent_id
    /\ task_results[1].created_at < task_results[2].created_at
    /\ task_results[2].created_at < task_results[3].created_at
    /\ lastResp.data = <<2, 3>>

\* C14 (as stated): GET /agents answers 502 for every kind of upstream
\* failure of the roster call: a non-success status, a transport error and a
\* timeout.
C14_Original ==
    [][\A o \in {"notok", "error", "timeout"}, roster \in [Agents -> AgentStates] :
         GetAgents(o, roster) => lastResp'.code = "502"]_vars

\* C15 (as stated): an approve, or a reject with feedback, is answered 200
\* only if the task exists when the decision is applied, and the returned task
\* then has status done, respectively in_progress; for a task that does not
\* exist then, also one deleted while the request was parsing its body, the
\* answer is 404 and no status, comment or push is written.
C15_Original ==
    [][\A r \in Reqs, b \in PatchBodies :
         ( /\ b.json /\ b.action \in {"approve", "reject"}
           /\ (b.action = "approve" \/ ~falsy(b.feedback))
           /\ PatchStatusFinish(r, b.json, b.action, b.feedback) )
         => LET t == reqs[r].taskId
                s == IF b.action = "approve" THEN "done" ELSE "in_progress"
            IN  IF t \in DOMAIN tasks
                THEN /\ lastResp'.code = "200" /\ lastResp'.data = s
                     /\ t \in DOMAIN tasks' /\ tasks'[t].status = s
                ELSE /\ lastResp'.code = "404"
                     /\ store' = store /\ pushes' = pushes]_vars

\* C16 (as stated): every existing task has a non-empty assignee set, and the
\* set never changes while the task exists.
C16_Original ==
    [][\A t \in DOMAIN tasks' :
         LET before == {row \in task_assignees : row[1] = t}
             after == {row \in task_assignees' : row[1] = t}
         IN  /\ after # {}
             /\ t \in DOMAIN tasks => after = before]_vars

\* the comments written by status-setting operations, and the status each announces
IsTransitionComment(c) ==
    \/ c.author_type = "agent"
    \/ c.content[1] \in {"[System] Task approved and marked as done.", "[Feedback]"}
AnnouncedStatus(c) ==
    CASE c.content[1] = "[System] Task approved and marked as done." -> "done"
      [] c.content[1] = "[Feedback]" -> "in_progress"
      [] c.content[Len(c.content)] = "started working on this task" -> "in_progress"
      [] OTHER -> "review"
TransitionComments(t) ==
    SelectSeq(task_comments, LAMBDA c : c.task_id = t /\ IsTransitionComment(c))

\* C17 (as stated): the status write and the comment of one status-setting
\* operation are not separated by the write or the comment of another one on
\* the same task, so whenever no such operation is between its write and its
\* comment, the last transition comment of an existing task announces the
\* task's current status.
C17_Original ==
    \A t \in DOMAIN tasks :
        ( /\ \A r \in Reqs : ~(reqs[r].pc = "name" /\ reqs[r].taskId = t)
          /\ TransitionComments(t) # <<>> )
        => AnnouncedStatus(TransitionComments(t)[Len(TransitionComments(t))]) = tasks[t].status

\* C18: every successful status-setting operation appends exactly one comment
\* to its task and a failed one appends none: an approve or reject answered
\* 200 writes its comment in the step of its status write; a tool call that
\* has written the status returns ok with exactly one comment of the caller
\* on its task appended; a step answering a refusal appends nothing; the
\* comment table grows by nothing else than these and a posted comment; and
\* a tool call that has written the status does reach its comment.
C18_OneCommentPerTransition ==
    /\ [][/\ \A r \in Reqs :
               /\ (Returns(r, "patch_status", "body") /\ lastResp'.code = "200")
                    => /\ Len(task_comments') = Len(task_comments) + 1
                       /\ task_comments'[Len(task_comments')].task_id = reqs[r].taskId
                       /\ IsTransitionComment(task_comments'[Len(task_comments')])
               /\ (Returns(r, "update_task_status", "name") \/ Returns(r, "post_task_result", "name"))
                    => /\ lastResp'.code = "ok"
                       /\ Len(task_comments') = Len(task_comments) + 1
                       /\ task_comments'[Len(task_comments')].task_id = reqs[r].taskId
                       /\ task_comments'[Len(task_comments')].author_id = reqs[r].agentId
                       /\ task_comments'[Len(task_comments')].author_type = "agent"
               /\ (reqs[r].pc = "bound" /\ reqs'[r].pc = "name")
                    => task_comments' = task_comments /\ reqs'[r].taskId \in DOMAIN tasks'
          /\ ( /\ lastResp = NoResp /\ lastResp' # NoResp
               /\ lastResp'.op \in {PatchRoute, "update_task_status", "post_task_result"}
               /\ lastResp'.code \notin {"200", "ok"} )
               => task_comments' = task_comments /\ tasks' = tasks
          /\ task_comments' # task_comments
               => \/ Answers("DELETE /tasks/:id")
                  \/ /\ Len(task_comments') = Len(task_comments) + 1
                     /\ SubSeq(task_comments', 1, Len(task_comments)) = task_comments
                     /\ \/ Answers(PatchRoute) /\ lastResp'.code = "200"
                        \/ Answers("update_task_status") /\ lastResp'.code = "ok"
                        \/ Answers("post_task_result") /\ lastResp'.code = "ok"
                        \/ Answers("POST /tasks/:id/comments") /\ lastResp'.code = "201"
         ]_vars
    /\ \A r \in Reqs : (reqs[r].pc = "name") ~> (reqs[r].pc = "idle")

\* two status-setting operations have been applied to a task, the second one
\* a tool call that has just returned, no request is in flight, and the task
\* has two transition comments
C18_Witness ==
    /\ lastResp.op \in {"update_task_status", "post_task_result"} /\ lastResp.code = "ok"
    /\ \A r \in Reqs : reqs[r].pc = "idle"
    /\ lastResp.task \in DOMAIN tasks
    /\ Len(TransitionComments(lastResp.task)) = 2

\* C19: whatever the outcome of the name lookup (a name, a 2xx answer without
\* a name, a non-success status, a transport error, a timeout),
\* update_task_status and post_task_result return the same ok response, leave
\* the task's status and the result rows as they are and append exactly one
\* comment, which is the same but for the author's display name: the looked-up
\* name, or the agent id when the lookup gave none.
C19_LookupOutcomeIrrelevant ==
    [][\A r \in Reqs, o \in LookupOutcomes :
         (UpdateTaskStatusFinish(r, o) \/ PostTaskResultFinish(r, o)) =>
           LET c == task_comments'[Len(task_comments')]
               shown == IF o = "name" THEN DisplayName(reqs[r].agentId) ELSE reqs[r].agentId
           IN  /\ lastResp' = Resp(reqs[r].op, "ok", reqs[r].taskId, reqs[r].agentId,
                                   IF reqs[r].op = "update_task_status"
                                   THEN reqs[r].status ELSE "review")
               /\ tasks' = tasks /\ task_results' = task_results
               /\ task_assignees' = task_assignees /\ pushes' = pushes
               /\ Len(task_comments') = Len(task_comments) + 1
               /\ SubSeq(task_comments', 1, Len(task_comments)) = task_comments
               /\ c.author_name = shown
               /\ [c EXCEPT !.author_name = "", !.content = [c.content EXCEPT ![2] = ""]]
                    = CommentRow(reqs[r].taskId, reqs[r].agentId, "agent", "",
                                 IF reqs[r].op = "update_task_status"
                                 THEN <<"[System]", "",
                                        IF reqs[r].status = "in_progress"
                                        THEN "started working on this task"
                                        ELSE "submitted this task for review">>
                                 ELSE <<"[System]", "", "submitted a result",
                                        reqs[r].filePath, "Task is now in review.">>,
                                 now)
               /\ c.content[2] = shown]_vars

\* a post_task_result has returned ok after a lookup that gave no name: its
\* comment is signed with the agent id, next to a comment signed with a name
C19_Witness ==
    /\ lastResp.op = "post_task_result" /\ lastResp.code = "ok"
    /\ Len(task_comments) = 2
    /\ task_comments[2].author_id = lastResp.agent
    /\ task_comments[2].author_name = lastResp.agent
    /\ task_comments[1].author_type = "agent"
    /\ task_comments[1].author_name = DisplayName(task_comments[1].author_id)
    /\ Len(task_results) = 1

\* C20: update_task_status(s), s in {in_progress, review}, by an agent assigned
\* to an existing task is accepted whatever the task's current status is,
\* done included: the call writes s as the status and returns ok with s.
C20_NoSourceStateCheck ==
    [][\A r \in Reqs :
         /\ \A t \in TaskIds, s \in {"in_progress", "review"} :
              ( /\ UpdateTaskStatusStart(r, t, s)
                /\ t \in DOMAIN tasks
                /\ <<t, reqs[r].agentId>> \in task_assignees )
              => /\ t \in DOMAIN tasks' /\ tasks'[t].status = s
                 /\ tasks'[t].updated_at = now
                 /\ reqs'[r].pc = "name" /\ reqs'[r].status = s
                 /\ lastResp' = NoResp
         /\ Returns(r, "update_task_status", "name")
              => lastResp'.code = "ok" /\ lastResp'.data = reqs[r].status]_vars

\* a task approved as done has been moved back to in_progress by its assignee
C20_Witness ==
    \E r \in Reqs :
        /\ reqs[r].pc = "name" /\ reqs[r].op = "update_task_status"
        /\ reqs[r].status = "in_progress"
        /\ \A q \in Reqs \ {r} : reqs[q].pc = "idle"
        /\ reqs[r].taskId \in DOMAIN tasks
        /\ tasks[reqs[r].taskId].status = "in_progress"
        /\ Len(task_comments) = 1
        /\ task_comments[1].task_id = reqs[r].taskId
        /\ task_comments[1].content = <<"[System] Task approved and marked as done.">>

\* a task is todo exactly while no status-setting operation has written to
\* it: it has no transition comment and no tool call is between its status
\* write and its comment
TodoIffUntouched ==
    \A t \in DOMAIN tasks :
        tasks[t].status = "todo"
          <=> /\ TransitionComments(t) = <<>>
              /\ \A r \in Reqs : ~(reqs[r].pc = "name" /\ reqs[r].taskId = t)

\* C21: todo is only the initial status: a task is created as todo, is todo
\* exactly until the first status-setting operation writes to it, leaves todo
\* only by such a write, and once it is not todo no step makes it todo again.
C21_TodoOnlyInitial ==
    [][/\ TodoIffUntouched'
       /\ \A t \in DOMAIN tasks' :
            /\ t \notin DOMAIN tasks => tasks'[t].status = "todo" /\ Answers("POST /tasks")
            /\ (t \in DOMAIN tasks /\ tasks[t].status # "todo") => tasks'[t].status # "todo"
            /\ (t \in DOMAIN tasks /\ tasks[t].status = "todo" /\ tasks'[t].status # "todo")
                 => \/ Answers(PatchRoute) /\ lastResp'.code = "200" /\ lastResp'.task = t
                    \/ \E r \in Reqs : /\ reqs[r].pc = "bound" /\ reqs'[r].pc = "name"
                                       /\ reqs'[r].taskId = t
       /\ \A r \in Reqs :
            (reqs[r].pc = "bound" /\ reqs'[r].pc = "name")
              => tasks'[reqs'[r].taskId].status \in {"in_progress", "review"}
      ]_vars

\* a task that was approved as done and then rejected is in_progress, not todo
C21_Witness ==
    /\ lastResp.op = PatchRoute /\ lastResp.code = "200" /\ lastResp.data = "in_progress"
    /\ lastResp.task \in DOMAIN tasks
    /\ tasks[lastResp.task].status = "in_progress"
    /\ Len(TransitionComments(lastResp.task)) = 2
    /\ AnnouncedStatus(TransitionComments(lastResp.task)[1]) = "done"

\* C22: the identity of a session is the agent_id of the request that
\* initialized it and stays the same while the session exists; a request
\* carrying the session's token runs under that identity whatever agent_id its
\* own URL supplies; no step changes the binding of a session, a session
\* leaves the table only by a DELETE carrying its token and enters it only by
\* an accepted initialize.
C22_SessionBindingFixed ==
    [][/\ \A s \in DOMAIN sessions :
            /\ s \in DOMAIN sessions' => sessions'[s] = sessions[s]
            /\ s \notin DOMAIN sessions'
                 => Answers("DELETE /mcp") /\ lastResp'.data = s
                    /\ DOMAIN sessions' = DOMAIN sessions \ {s}
            /\ \A r \in Reqs, a \in Identities :
                 McpToolsCall(r, s, a)
                   => /\ reqs'[r].pc = "bound" /\ reqs'[r].sid = s
                      /\ reqs'[r].agentId = sessions[s]
                      /\ sessions' = sessions
            /\ \A a \in Identities :
                 McpInitialize(s, a) => lastResp'.code = "400" /\ sessions' = sessions
       /\ \A s \in DOMAIN sessions' \ DOMAIN sessions :
            /\ Answers("initialize") /\ lastResp'.code = "200"
            /\ sessions'[s] = lastResp'.agent
            /\ DOMAIN sessions' = DOMAIN sessions \cup {s}
       /\ \A r \in Reqs :
            (reqs[r].pc # "idle" /\ reqs'[r].pc # "idle") => reqs'[r].agentId = reqs[r].agentId
      ]_vars

\* a request is in flight on the first session under the identity that
\* session was initialized with, after a second session was opened for
\* another identity
C22_Witness ==
    \E r \in Reqs :
        /\ reqs[r].pc = "name"
        /\ reqs[r].sid = 1 /\ 1 \in DOMAIN sessions
        /\ reqs[r].agentId = sessions[1]
        /\ 2 \in DOMAIN sessions /\ sessions[2] \in Agents \ {sessions[1]}
        /\ \E q \in Reqs : reqs[q].pc = "bound" /\ reqs[q].sid = 2
                           /\ reqs[q].agentId = sessions[2]

====
